---- MODULE Spec2Model ----
(***************************************************************************)
(* WTF::CheckedPtr (Source/WTF/wtf/CheckedPtr.h): a nullable, non-owning   *)
(* pointer that charges one increment to its pointee's outstanding count.  *)
(*                                                                         *)
(* Every member function is one action.  Its body is a composition of the  *)
(* statements of the source, each an operator on a machine record          *)
(*   [ptr, ref, cnt, st, log, dbg, reg, wild]                              *)
(* (the m_ptr of every CheckedPtr instance, the m_ptr of every CheckedRef, *)
(* the pointees' counts, the process status, the ordered list of the       *)
(* count and sentinel events the call performed, whether the build has     *)
(* CHECKED_POINTER_DEBUG, the pointees' registries of instance identities, *)
(* and whether the call went through an address no pointee lives at).      *)
(* The local of a member function (copy, moved, valueToBeDestroyed) is the *)
(* instance Tmp, which lives only inside one call.                         *)
(*                                                                         *)
(* PtrTraits is RawPtrTraits: unwrap is the stored pointer itself,         *)
(* exchange and swap are std::exchange and std::swap.                      *)
(*                                                                         *)
(* Spec is the default build, SpecDebug the build with                     *)
(* CHECKED_POINTER_DEBUG, SpecDeleted the default build with callers that  *)
(* also use instances holding the hash-table deleted value.                *)
(***************************************************************************)
EXTENDS Integers, Sequences, FiniteSets

\* ---------------------------------------------------------------- bounds
NumPtrs == 3
NumRefs == 1
NumPointees == 3
\* The pointees that exist at once in the build with CHECKED_POINTER_DEBUG.
NumDebugPointees == 2

\* ---------------------------------------------------------------- values
Ptrs == 1..NumPtrs
Refs == 1..NumRefs
Pointees == 1..NumPointees

\* The local CheckedPtr of a member function (copy / moved / valueToBeDestroyed).
Tmp == 0
\* nullptr
Null == 0
\* PtrTraits::hashTableDeletedValue(): an address no pointee lives at.
hashTableDeletedValue == -1
\* No object lives in the instance's storage (not constructed, or destroyed).
Dead == -2

Slots == Ptrs \cup {Tmp}

VARIABLES
    m_ptr,          \* CheckedPtr::m_ptr of every CheckedPtr instance
    ref_ptr,        \* CheckedRef::m_ptr of every CheckedRef instance
    ptrCount,       \* the outstanding count of every pointee
    alive,          \* whether the pointee object exists
    status,         \* "running", "assertion" (fatal assertion), "crashed"
    assertEnabled,  \* the build: whether ASSERT() is compiled in
    debugEnabled,   \* the build: whether CHECKED_POINTER_DEBUG is set
    registry,       \* per pointee, the identities registered with it
    release,        \* the same calls run by the build without CHECKED_POINTER_DEBUG
    last,           \* the last completed call: its operands, the state it
                    \* started from and the events it performed, in order
    roundTrip       \* a releaseNonNull immediately followed by CheckedPtr(CheckedRef&&)

vars == <<m_ptr, ref_ptr, ptrCount, alive, status, assertEnabled, debugEnabled,
          registry, release, last, roundTrip>>

\* ------------------------------------------------------- the machine record
Cur == [ptr |-> m_ptr, ref |-> ref_ptr, cnt |-> ptrCount, st |-> status, log |-> <<>>,
        dbg |-> debugEnabled, reg |-> registry, wild |-> FALSE]

\* The machine of the build without CHECKED_POINTER_DEBUG: no registry.
Rel == [ptr |-> release.ptr, ref |-> release.ref, cnt |-> release.cnt, st |-> release.st,
        log |-> <<>>, dbg |-> FALSE, reg |-> [p \in Pointees |-> {}], wild |-> FALSE]

\* The identity (address) of a CheckedPtr instance and of a CheckedRef instance.
PtrId(x) == x

RefId(r) == NumPtrs + r

Event(ev, a, c) == [ev |-> ev, a |-> a, c |-> c]

\* ------------------------------------------- the counted-target contract
\* A call through an address no pointee lives at (the deleted-value
\* sentinel, null) is undefined: it is recorded, and the counts of the
\* pointees are left alone.
incrementPtrCount(m, p) ==
    IF p \in Pointees
    THEN [m EXCEPT !.cnt[p] = @ + 1,
                   !.log = Append(@, Event("inc", p, m.cnt[p] + 1))]
    ELSE [m EXCEPT !.wild = TRUE, !.log = Append(@, Event("inc", p, 0))]

decrementPtrCount(m, p) ==
    IF p \in Pointees
    THEN [m EXCEPT !.cnt[p] = @ - 1,
                   !.log = Append(@, Event("dec", p, m.cnt[p] - 1))]
    ELSE [m EXCEPT !.wild = TRUE, !.log = Append(@, Event("dec", p, 0))]

\* ------------------------------------ the registry of CHECKED_POINTER_DEBUG
registerCheckedPtr(m, p, id) ==
    IF p \in Pointees THEN [m EXCEPT !.reg[p] = @ \cup {id}] ELSE [m EXCEPT !.wild = TRUE]

\* The entry of the source stays; the destination gets an entry of its own.
copyCheckedPtr(m, p, src, dst) ==
    IF p \in Pointees THEN [m EXCEPT !.reg[p] = @ \cup {dst}] ELSE [m EXCEPT !.wild = TRUE]

\* The entry of the source becomes the entry of the destination.
moveCheckedPtr(m, p, src, dst) ==
    IF p \in Pointees THEN [m EXCEPT !.reg[p] = (@ \ {src}) \cup {dst}]
    ELSE [m EXCEPT !.wild = TRUE]

unregisterCheckedPtr(m, p, id) ==
    IF p \in Pointees THEN [m EXCEPT !.reg[p] = @ \ {id}] ELSE [m EXCEPT !.wild = TRUE]

\* The check of the pointee's destructor: fatal when a count is outstanding.
PointeeDtorFails(m, p) == m.cnt[p] # 0

\* ------------------------------------------------------ private helpers
refIfNotNull(m, x) ==
    IF m.ptr[x] # Null THEN incrementPtrCount(m, m.ptr[x]) ELSE m

derefIfNotNull(m, x) ==
    IF m.ptr[x] # Null THEN decrementPtrCount(m, m.ptr[x]) ELSE m

\* PtrTraits::swap(m_ptr, other.m_ptr)
swap(m, x, y) ==
    [m EXCEPT !.ptr[x] = m.ptr[y], !.ptr[y] = m.ptr[x]]

\* ASSERT(cond): fatal when assertions are compiled in, nothing otherwise.
AssertFails(cond) == assertEnabled /\ ~cond

Fatal(m) == [m EXCEPT !.st = "assertion"]

Crash(m) == [m EXCEPT !.st = "crashed"]

\* The outcome of a call that went through an address no pointee lives at:
\* ub picks whether the build crashes or goes on.
Undefined(m, ub) == IF m.wild /\ m.st = "running" /\ ub THEN Crash(m) ELSE m

\* -------------------------------------------- constructors and destructor
\* CheckedPtr(T* ptr)
CtorRaw(m, x, v) ==
    LET m1 == refIfNotNull([m EXCEPT !.ptr[x] = v], x)
    IN  IF m1.dbg /\ v # Null THEN registerCheckedPtr(m1, v, PtrId(x)) ELSE m1

\* Faulty variant: the copy constructor forgets refIfNotNull().
CtorCopy_NoRef(m, x, o) ==
    [m EXCEPT !.ptr[x] = m.ptr[o]]

\* CheckedPtr(const CheckedPtr& other)
CtorCopy(m, x, o) ==
    LET m1 == refIfNotNull([m EXCEPT !.ptr[x] = m.ptr[o]], x)
    IN  IF m1.dbg /\ m1.ptr[x] # Null
        THEN copyCheckedPtr(m1, m1.ptr[x], PtrId(o), PtrId(x))
        ELSE m1

\* Faulty variant: the move constructor charges a fresh increment, as a copy does.
CtorMove_Refs(m, x, o) ==
    refIfNotNull([m EXCEPT !.ptr = [@ EXCEPT ![o] = Null, ![x] = m.ptr[o]]], x)

\* Faulty variant: the move constructor leaves the source targeting the pointee.
CtorMove_KeepsSource(m, x, o) ==
    [m EXCEPT !.ptr[x] = m.ptr[o]]

\* CheckedPtr(CheckedPtr&& other)
CtorMove(m, x, o) ==
    LET m1 == [m EXCEPT !.ptr = [@ EXCEPT ![o] = Null, ![x] = m.ptr[o]]]
    IN  IF m1.dbg /\ m1.ptr[x] # Null
        THEN moveCheckedPtr(m1, m1.ptr[x], PtrId(o), PtrId(x))
        ELSE m1

\* ~CheckedPtr()
Dtor(m, x) ==
    LET m0 == IF m.dbg /\ m.ptr[x] # Null
              THEN unregisterCheckedPtr(m, m.ptr[x], PtrId(x))
              ELSE m
        m1 == derefIfNotNull(m0, x)
    IN  [m1 EXCEPT !.ptr[x] = Dead]

\* CheckedPtr(const CheckedPtr<OtherType, OtherPtrTraits>& other):
\* delegates to CheckedPtr(T*) with the unwrapped pointer of other.
CtorConvCopy(m, x, o) ==
    CtorRaw(m, x, m.ptr[o])

\* Faulty variant: the converting move constructor does not null the source.
CtorConvMove_KeepsSource(m, x, o) ==
    [m EXCEPT !.ptr[x] = m.ptr[o]]

\* CheckedPtr(CheckedPtr<OtherType, OtherPtrTraits>&& other)
CtorConvMove(m, x, o) ==
    LET m1 == [m EXCEPT !.ptr = [@ EXCEPT ![o] = Null, ![x] = m.ptr[o]]]
    IN  IF m1.dbg /\ m1.ptr[x] # Null
        THEN moveCheckedPtr(m1, m1.ptr[x], PtrId(o), PtrId(x))
        ELSE m1

\* CheckedPtr(HashTableDeletedValueType): no refIfNotNull(), no registration.
CtorDeleted(m, x) ==
    [m EXCEPT !.ptr[x] = hashTableDeletedValue]

\* CheckedPtr(HashTableDeletedValueType), placed into the storage of x by
\* SimpleClassHashTraits::constructDeletedValue (placement new, no destructor).
constructDeletedValue(m, x) ==
    [CtorDeleted(m, x) EXCEPT !.log = Append(@, Event("deleted", x, 0))]

\* Faulty variant: the deleted value is encoded as the lowest object address.
isHashTableDeletedValue_NaiveSentinel(m, x) == m.ptr[x] = 1

\* bool isHashTableDeletedValue() const
isHashTableDeletedValue(m, x) == m.ptr[x] = hashTableDeletedValue

\* bool operator==(const T* other) const
operatorEquals(m, x, v) == m.ptr[x] = v

\* ------------------------------------------------------------ CheckedRef
\* CheckedRef(T&): charges one increment.
CheckedRefCtor(m, r, p) ==
    LET m1 == incrementPtrCount([m EXCEPT !.ref[r] = p], p)
    IN  IF m1.dbg THEN registerCheckedPtr(m1, p, RefId(r)) ELSE m1

\* CheckedRef(T&, Adopt): takes over an increment that already exists.
CheckedRefAdopt(m, r, v) ==
    LET m1 == [m EXCEPT !.ref[r] = v]
    IN  IF m1.dbg THEN registerCheckedPtr(m1, v, RefId(r)) ELSE m1

\* CheckedRef::releasePtr(): hands the pointer out, no decrement; the entry
\* of the registry is left to the moveCheckedPtr of the receiver.
releasePtr(m, r) ==
    [m EXCEPT !.ref[r] = Null]

\* ~CheckedRef(): releases the increment if the pointer was not released.
CheckedRefDtor(m, r) ==
    LET m0 == IF m.dbg /\ m.ref[r] # Null
              THEN unregisterCheckedPtr(m, m.ref[r], RefId(r))
              ELSE m
        m1 == IF m0.ref[r] # Null THEN decrementPtrCount(m0, m0.ref[r]) ELSE m0
    IN  [m1 EXCEPT !.ref[r] = Dead]

\* Faulty variant: a CheckedRef that stays alive is taken over without an increment.
CtorRefCopy_Adopts(m, x, r) ==
    [m EXCEPT !.ptr[x] = m.ref[r]]

\* CheckedPtr(CheckedRef<T, PtrTraits>& other) and the converting const& form
CtorRefCopy(m, x, r) ==
    CtorRaw(m, x, m.ref[r])

\* Faulty variant: consuming a CheckedRef charges a fresh increment.
CtorRefMove_Refs(m, x, r) ==
    refIfNotNull([releasePtr(m, r) EXCEPT !.ptr[x] = m.ref[r]], x)

\* CheckedPtr(CheckedRef<T, PtrTraits>&& other) and the converting && form
\* The registry block calls moveCheckedPtr through the pointer without a
\* null test.
CtorRefMove(m, x, r) ==
    LET m1 == [releasePtr(m, r) EXCEPT !.ptr[x] = m.ref[r]]
    IN  IF AssertFails(m1.ptr[x] # Null) THEN Fatal(m1)
        ELSE IF m1.dbg THEN moveCheckedPtr(m1, m1.ptr[x], RefId(r), PtrId(x))
        ELSE m1

\* ------------------------------------------------------------- accessors
\* Faulty variant: operator* without its ASSERT(m_ptr).
operatorStar_Unchecked(m, x, ub) ==
    IF m.ptr[x] = Null /\ ub THEN Crash(m) ELSE m

\* T& operator*() const { ASSERT(m_ptr); return *get(); }
\* Without the assertion, *get() on a null slot is undefined: ub picks
\* whether the build crashes there or goes on.
operatorStar(m, x, ub) ==
    IF AssertFails(m.ptr[x] # Null) THEN Fatal(m)
    ELSE IF m.ptr[x] = Null /\ ub THEN Crash(m)
    ELSE m

\* T* operator->() const { return get(); }  No check: the call returns the
\* stored pointer, null included.
operatorArrow(m, x) == m

\* The caller's member access through the pointer operator-> returned:
\* undefined through null (crash or go on), never an assertion.
MemberAccess(m, v, ub) ==
    IF v = Null /\ ub THEN Crash(m) ELSE m

\* CheckedRef<T> releaseNonNull()
releaseNonNull(m, x, r, ub) ==
    IF AssertFails(m.ptr[x] # Null) THEN Fatal(m)
    ELSE IF m.ptr[x] = Null /\ ub THEN Crash(m)
    ELSE LET m1 == [m EXCEPT !.ptr[x] = Null]
             m2 == IF m1.dbg THEN unregisterCheckedPtr(m1, m.ptr[x], PtrId(x)) ELSE m1
         IN  CheckedRefAdopt(m2, r, m.ptr[x])

\* ------------------------------------------------------------ assignment
\* Faulty variant: the registry block also releases the pointee's count.
unregisterCheckedPtrIfNecessary_Releases(m, x) ==
    IF ~m.dbg THEN m
    ELSE IF isHashTableDeletedValue(m, x) THEN m
    ELSE IF m.ptr[x] # Null
         THEN decrementPtrCount(unregisterCheckedPtr(m, m.ptr[x], PtrId(x)), m.ptr[x])
    ELSE m

\* void unregisterCheckedPtrIfNecessary()
unregisterCheckedPtrIfNecessary(m, x) ==
    IF ~m.dbg THEN m
    ELSE IF isHashTableDeletedValue(m, x) THEN m
    ELSE IF m.ptr[x] # Null THEN unregisterCheckedPtr(m, m.ptr[x], PtrId(x))
    ELSE m

\* The registry block after the swap of an assignment:
\* if (ptr) ptr->copyCheckedPtr(&local, this), ptr the new value of m_ptr.
NoteAssigned(m, x) ==
    IF m.dbg /\ m.ptr[x] # Null
    THEN copyCheckedPtr(m, m.ptr[x], PtrId(Tmp), PtrId(x))
    ELSE m

\* Faulty variant: the reset releases the pointee and keeps the pointer.
AssignNull_KeepsPointer(m, x) ==
    derefIfNotNull(unregisterCheckedPtrIfNecessary(m, x), x)

\* CheckedPtr& operator=(std::nullptr_t)
AssignNull(m, x) ==
    LET m0 == unregisterCheckedPtrIfNecessary(m, x)
        m1 == derefIfNotNull(m0, x)
    IN  [m1 EXCEPT !.ptr[x] = Null]

\* Faulty variant: the old value is released before the new one is charged.
AssignRaw_ReleaseFirst(m, x, v) ==
    CtorRaw(derefIfNotNull(m, x), x, v)

\* CheckedPtr& operator=(T* ptr)
AssignRaw(m, x, v) ==
    LET m0 == unregisterCheckedPtrIfNecessary(m, x)
        copied == CtorRaw(m0, Tmp, v)
        swapped == swap(copied, x, Tmp)
    IN  Dtor(NoteAssigned(swapped, x), Tmp)

\* Faulty variant: the temporary holding the old value is never destroyed.
AssignCopy_LeaksOld(m, x, o) ==
    LET copied == CtorCopy(m, Tmp, o)
        swapped == swap(copied, x, Tmp)
    IN  [swapped EXCEPT !.ptr[Tmp] = Dead]

\* CheckedPtr& operator=(const CheckedPtr& other)
AssignCopy(m, x, o) ==
    LET m0 == unregisterCheckedPtrIfNecessary(m, x)
        copied == CtorCopy(m0, Tmp, o)
        swapped == swap(copied, x, Tmp)
    IN  Dtor(NoteAssigned(swapped, x), Tmp)

\* Faulty variant: the new value is stored without being charged.
AssignConvCopy_Uncharged(m, x, o) ==
    LET m1 == derefIfNotNull(m, x)
    IN  [m1 EXCEPT !.ptr[x] = m.ptr[o]]

\* CheckedPtr& operator=(const CheckedPtr<OtherType, OtherPtrTraits>& other)
AssignConvCopy(m, x, o) ==
    LET m0 == unregisterCheckedPtrIfNecessary(m, x)
        copied == CtorConvCopy(m0, Tmp, o)
        swapped == swap(copied, x, Tmp)
    IN  Dtor(NoteAssigned(swapped, x), Tmp)

\* Faulty variant: no temporary; the old value is released, then the source is taken.
AssignMove_ReleaseFirst(m, x, o) ==
    LET m1 == derefIfNotNull(m, x)
    IN  [m1 EXCEPT !.ptr = [@ EXCEPT ![o] = Null, ![x] = m.ptr[o]]]

\* CheckedPtr& operator=(CheckedPtr&& other)
AssignMove(m, x, o) ==
    LET m0 == unregisterCheckedPtrIfNecessary(m, x)
        moved == CtorMove(m0, Tmp, o)
        swapped == swap(moved, x, Tmp)
    IN  Dtor(NoteAssigned(swapped, x), Tmp)

\* CheckedPtr& operator=(CheckedPtr<OtherType, OtherPtrTraits>&& other)
AssignConvMove(m, x, o) ==
    LET m0 == unregisterCheckedPtrIfNecessary(m, x)
        moved == CtorConvMove(m0, Tmp, o)
        swapped == swap(moved, x, Tmp)
    IN  Dtor(NoteAssigned(swapped, x), Tmp)

\* ------------------------------------------------------------ HashTraits
\* static P* emptyValue() { return nullptr; }
emptyValue == Null

\* Faulty variant: the bucket is overwritten with the sentinel, its value not destroyed.
customDeleteBucket_Overwrite(m, x) ==
    constructDeletedValue(m, x)

\* Faulty variant: the value is destroyed in place, then the sentinel is written.
customDeleteBucket_DestroyFirst(m, x) ==
    constructDeletedValue(Dtor(m, x), x)

\* HashTraits<CheckedPtr<P>>::customDeleteBucket(CheckedPtr<P>& value)
customDeleteBucket(m, x) ==
    IF AssertFails(~isHashTableDeletedValue(m, x)) THEN Fatal(m)
    ELSE LET valueToBeDestroyed == CtorMove(m, Tmp, x)
             marked == constructDeletedValue(valueToBeDestroyed, x)
         IN  Dtor(marked, Tmp)

\* Nothing is constructed yet; the build is chosen.
Start ==
    /\ m_ptr = [x \in Slots |-> Dead]
    /\ ref_ptr = [r \in Refs |-> Dead]
    /\ ptrCount = [p \in Pointees |-> 0]
    /\ alive = [p \in Pointees |-> FALSE]
    /\ status = "running"
    /\ assertEnabled \in BOOLEAN
    /\ registry = [p \in Pointees |-> {}]
    /\ release = [ptr |-> [x \in Slots |-> Dead], ref |-> [r \in Refs |-> Dead],
                  cnt |-> [p \in Pointees |-> 0], st |-> "running", log |-> <<>>]
    /\ last = [op |-> "none", a |-> 0, b |-> 0, a0 |-> Dead, b0 |-> Dead,
               cnt0 |-> [p \in Pointees |-> 0], log |-> <<>>]
    /\ roundTrip = [phase |-> "none", src |-> 0, rf |-> 0, dst |-> 0, p |-> 0, c |-> 0]

\* The default build: CHECKED_POINTER_DEBUG is 0.
Init == Start /\ debugEnabled = FALSE

\* The diagnostic build: CHECKED_POINTER_DEBUG is 1.
InitDebug == Start /\ debugEnabled = TRUE

\* ---------------------------------------------------------------- actions
Running == status = "running"

NoRoundTrip == [phase |-> "none", src |-> 0, rf |-> 0, dst |-> 0, p |-> 0, c |-> 0]

\* Instances are interchangeable: a new object takes the lowest free storage.
FreshPtr(x) == m_ptr[x] = Dead /\ \A y \in Ptrs : y < x => m_ptr[y] # Dead

FreshRef(r) == ref_ptr[r] = Dead /\ \A q \in Refs : q < r => ref_ptr[q] # Dead

FreshPointee(p) == ~alive[p] /\ \A q \in Pointees : q < p => alive[q]

\* A constructed CheckedPtr that is not a deleted hash-table bucket (the
\* hash table neither reads, assigns nor destroys a deleted bucket).
Usable(x) == m_ptr[x] # Dead /\ m_ptr[x] # hashTableDeletedValue

\* The raw pointers a caller can pass: nullptr or the address of a live pointee.
RawPointers == {Null} \cup {p \in Pointees : alive[p]}

\* The call is complete: m is its outcome in this build, s its outcome in
\* the build without CHECKED_POINTER_DEBUG.  The default build is that build
\* itself, so only the build with the registry keeps the second outcome.
Commit(m, s, op, a, b, a0, b0) ==
    /\ m_ptr' = m.ptr
    /\ ref_ptr' = m.ref
    /\ ptrCount' = m.cnt
    /\ status' = m.st
    /\ registry' = m.reg
    /\ release' = IF debugEnabled
                   THEN [ptr |-> s.ptr, ref |-> s.ref, cnt |-> s.cnt, st |-> s.st, log |-> s.log]
                   ELSE release
    /\ last' = [op |-> op, a |-> a, b |-> b, a0 |-> a0, b0 |-> b0,
                cnt0 |-> ptrCount, log |-> m.log]
    /\ UNCHANGED <<alive, assertEnabled, debugEnabled>>

\* CheckedPtr(HashTableDeletedValue): the key a hash table marks a deleted
\* bucket with.
NewDeleted(x) ==
    /\ Running /\ FreshPtr(x)
    /\ Commit(CtorDeleted(Cur, x), CtorDeleted(Rel, x), "CheckedPtr(HashTableDeletedValue)",
              x, 0, Dead, hashTableDeletedValue)
    /\ roundTrip' = NoRoundTrip

\* CheckedPtr() / CheckedPtr(std::nullptr_t)
NewNull(x) ==
    /\ Running /\ FreshPtr(x)
    /\ Commit([Cur EXCEPT !.ptr[x] = Null], [Rel EXCEPT !.ptr[x] = Null], "CheckedPtr()", x, 0, Dead, Null)
    /\ roundTrip' = NoRoundTrip

NewRaw(x, v) ==
    /\ Running /\ FreshPtr(x) /\ v \in RawPointers
    /\ Commit(CtorRaw(Cur, x, v), CtorRaw(Rel, x, v), "CheckedPtr(T*)", x, v, Dead, v)
    /\ roundTrip' = NoRoundTrip

NewCopy(x, o, conv) ==
    /\ Running /\ FreshPtr(x) /\ Usable(o)
    /\ IF conv
       THEN Commit(CtorConvCopy(Cur, x, o), CtorConvCopy(Rel, x, o), "CheckedPtr(const Other&)", x, o, Dead, m_ptr[o])
       ELSE Commit(CtorCopy(Cur, x, o), CtorCopy(Rel, x, o), "CheckedPtr(const&)", x, o, Dead, m_ptr[o])
    /\ roundTrip' = NoRoundTrip

NewMove(x, o, conv) ==
    /\ Running /\ FreshPtr(x) /\ Usable(o)
    /\ IF conv
       THEN Commit(CtorConvMove(Cur, x, o), CtorConvMove(Rel, x, o), "CheckedPtr(Other&&)", x, o, Dead, m_ptr[o])
       ELSE Commit(CtorMove(Cur, x, o), CtorMove(Rel, x, o), "CheckedPtr(&&)", x, o, Dead, m_ptr[o])
    /\ roundTrip' = NoRoundTrip

NewFromRef(x, r) ==
    /\ Running /\ FreshPtr(x) /\ ref_ptr[r] # Dead
    /\ Commit(CtorRefCopy(Cur, x, r), CtorRefCopy(Rel, x, r), "CheckedPtr(CheckedRef&)", x, r, Dead, ref_ptr[r])
    /\ roundTrip' = NoRoundTrip

\* Through a released (null) CheckedRef the registry block is undefined.
NewFromRefMove(x, r, ub) ==
    /\ Running /\ FreshPtr(x) /\ ref_ptr[r] # Dead
    /\ Commit(Undefined(CtorRefMove(Cur, x, r), ub), Undefined(CtorRefMove(Rel, x, r), ub),
              "CheckedPtr(CheckedRef&&)", x, r, Dead, ref_ptr[r])
    /\ roundTrip' = IF roundTrip.phase = "released" /\ roundTrip.rf = r
                    THEN [roundTrip EXCEPT !.phase = "done", !.dst = x]
                    ELSE NoRoundTrip

Delete(x) ==
    /\ Running /\ x \in Ptrs /\ Usable(x)
    /\ Commit(Dtor(Cur, x), Dtor(Rel, x), "~CheckedPtr", x, 0, m_ptr[x], Null)
    /\ roundTrip' = NoRoundTrip

SetNull(x) ==
    /\ Running /\ x \in Ptrs /\ Usable(x)
    /\ Commit(AssignNull(Cur, x), AssignNull(Rel, x), "operator=(nullptr)", x, 0, m_ptr[x], Null)
    /\ roundTrip' = NoRoundTrip

SetRaw(x, v) ==
    /\ Running /\ x \in Ptrs /\ Usable(x) /\ v \in RawPointers
    /\ Commit(AssignRaw(Cur, x, v), AssignRaw(Rel, x, v), "operator=(T*)", x, v, m_ptr[x], v)
    /\ roundTrip' = NoRoundTrip

\* The converting forms take a CheckedPtr of another type: never *this.
SetCopy(x, o, conv) ==
    /\ Running /\ x \in Ptrs /\ o \in Ptrs /\ Usable(x) /\ Usable(o)
    /\ conv => x # o
    /\ IF conv
       THEN Commit(AssignConvCopy(Cur, x, o), AssignConvCopy(Rel, x, o), "operator=(const Other&)", x, o, m_ptr[x], m_ptr[o])
       ELSE Commit(AssignCopy(Cur, x, o), AssignCopy(Rel, x, o), "operator=(const&)", x, o, m_ptr[x], m_ptr[o])
    /\ roundTrip' = NoRoundTrip

SetMove(x, o, conv) ==
    /\ Running /\ x \in Ptrs /\ o \in Ptrs /\ Usable(x) /\ Usable(o)
    /\ conv => x # o
    /\ IF conv
       THEN Commit(AssignConvMove(Cur, x, o), AssignConvMove(Rel, x, o), "operator=(Other&&)", x, o, m_ptr[x], m_ptr[o])
       ELSE Commit(AssignMove(Cur, x, o), AssignMove(Rel, x, o), "operator=(&&)", x, o, m_ptr[x], m_ptr[o])
    /\ roundTrip' = NoRoundTrip

Release(x, r, ub) ==
    /\ Running /\ x \in Ptrs /\ Usable(x) /\ FreshRef(r)
    /\ Commit(releaseNonNull(Cur, x, r, ub), releaseNonNull(Rel, x, r, ub), "releaseNonNull", x, r, m_ptr[x], Dead)
    /\ roundTrip' = IF m_ptr[x] # Null
                    THEN [phase |-> "released", src |-> x, rf |-> r, dst |-> 0,
                          p |-> m_ptr[x], c |-> ptrCount[m_ptr[x]]]
                    ELSE NoRoundTrip

\* A dereference of a non-null pointer reads the pointee and changes nothing.
Star(x, ub) ==
    /\ Running /\ x \in Ptrs /\ Usable(x)
    /\ IF m_ptr[x] # Null
       THEN UNCHANGED vars
       ELSE /\ Commit(operatorStar(Cur, x, ub), operatorStar(Rel, x, ub), "operator*", x, 0, m_ptr[x], Null)
            /\ roundTrip' = NoRoundTrip

Arrow(x, ub) ==
    /\ Running /\ x \in Ptrs /\ Usable(x)
    /\ IF m_ptr[x] # Null
       THEN UNCHANGED vars
       ELSE /\ Commit(MemberAccess(operatorArrow(Cur, x), m_ptr[x], ub),
                      MemberAccess(operatorArrow(Rel, x), m_ptr[x], ub),
                      "operator->", x, 0, m_ptr[x], Null)
            /\ roundTrip' = NoRoundTrip

DeleteBucket(x) ==
    /\ Running /\ x \in Ptrs /\ Usable(x)
    /\ Commit(customDeleteBucket(Cur, x), customDeleteBucket(Rel, x), "customDeleteBucket", x, 0, m_ptr[x], Null)
    /\ roundTrip' = NoRoundTrip

RefNew(r, p) ==
    /\ Running /\ FreshRef(r) /\ p \in Pointees /\ alive[p]
    /\ Commit(CheckedRefCtor(Cur, r, p), CheckedRefCtor(Rel, r, p), "CheckedRef(T&)", r, p, Dead, p)
    /\ roundTrip' = NoRoundTrip

RefDelete(r) ==
    /\ Running /\ ref_ptr[r] # Dead
    /\ Commit(CheckedRefDtor(Cur, r), CheckedRefDtor(Rel, r), "~CheckedRef", r, 0, ref_ptr[r], Null)
    /\ roundTrip' = NoRoundTrip

\* The pointee's constructor: no CheckedPtr targets it yet.
PointeeNew(p) ==
    /\ Running /\ FreshPointee(p)
    /\ debugEnabled => p <= NumDebugPointees
    /\ alive' = [alive EXCEPT ![p] = TRUE]
    /\ ptrCount' = [ptrCount EXCEPT ![p] = 0]
    /\ registry' = [registry EXCEPT ![p] = {}]
    /\ release' = IF debugEnabled THEN [release EXCEPT !.cnt[p] = 0, !.log = <<>>] ELSE release
    /\ last' = [op |-> "Pointee()", a |-> p, b |-> 0, a0 |-> Dead, b0 |-> Null,
                cnt0 |-> ptrCount, log |-> <<>>]
    /\ roundTrip' = NoRoundTrip
    /\ UNCHANGED <<m_ptr, ref_ptr, status, assertEnabled, debugEnabled>>

\* The pointee's destructor: RELEASE_ASSERT that no CheckedPtr is outstanding.
PointeeDelete(p) ==
    /\ Running /\ p \in Pointees /\ alive[p]
    /\ IF PointeeDtorFails(Cur, p)
       THEN status' = "assertion" /\ UNCHANGED alive
       ELSE alive' = [alive EXCEPT ![p] = FALSE] /\ UNCHANGED status
    /\ release' = IF debugEnabled
                   THEN [release EXCEPT !.st = IF PointeeDtorFails(Rel, p) THEN "assertion" ELSE @,
                                        !.log = <<>>]
                   ELSE release
    /\ last' = [op |-> "~Pointee", a |-> p, b |-> 0, a0 |-> Dead, b0 |-> Null,
                cnt0 |-> ptrCount, log |-> <<>>]
    /\ roundTrip' = NoRoundTrip
    /\ UNCHANGED <<m_ptr, ref_ptr, ptrCount, assertEnabled, debugEnabled, registry>>

Next ==
    \/ \E x \in Ptrs : NewNull(x)
    \/ \E x \in Ptrs : NewDeleted(x)
    \/ \E x \in Ptrs, v \in {Null} \cup Pointees : NewRaw(x, v)
    \/ \E x \in Ptrs, o \in Ptrs, conv \in BOOLEAN : NewCopy(x, o, conv)
    \/ \E x \in Ptrs, o \in Ptrs, conv \in BOOLEAN : NewMove(x, o, conv)
    \/ \E x \in Ptrs, r \in Refs : NewFromRef(x, r)
    \/ \E x \in Ptrs, r \in Refs, ub \in BOOLEAN : NewFromRefMove(x, r, ub)
    \/ \E x \in Ptrs : Delete(x)
    \/ \E x \in Ptrs : SetNull(x)
    \/ \E x \in Ptrs, v \in {Null} \cup Pointees : SetRaw(x, v)
    \/ \E x \in Ptrs, o \in Ptrs, conv \in BOOLEAN : SetCopy(x, o, conv)
    \/ \E x \in Ptrs, o \in Ptrs, conv \in BOOLEAN : SetMove(x, o, conv)
    \/ \E x \in Ptrs, r \in Refs, ub \in BOOLEAN : Release(x, r, ub)
    \/ \E x \in Ptrs, ub \in BOOLEAN : Star(x, ub)
    \/ \E x \in Ptrs, ub \in BOOLEAN : Arrow(x, ub)
    \/ \E x \in Ptrs : DeleteBucket(x)
    \/ \E r \in Refs, p \in Pointees : RefNew(r, p)
    \/ \E r \in Refs : RefDelete(r)
    \/ \E p \in Pointees : PointeeNew(p)
    \/ \E p \in Pointees : PointeeDelete(p)

Spec == Init /\ [][Next]_vars

\* The same calls in the build with CHECKED_POINTER_DEBUG.
SpecDebug == InitDebug /\ [][Next]_vars

\* ------------------------------------- calls on a deleted-value CheckedPtr
\* The member functions below are the ones above, called on an instance that
\* holds the deleted value (what no hash table does with a deleted bucket).
\* ~CheckedPtr()
DeleteDeleted(x, ub) ==
    /\ Running /\ x \in Ptrs /\ isHashTableDeletedValue(Cur, x)
    /\ Commit(Undefined(Dtor(Cur, x), ub), Undefined(Dtor(Rel, x), ub),
              "~CheckedPtr", x, 0, m_ptr[x], Null)
    /\ roundTrip' = NoRoundTrip

\* CheckedPtr(const CheckedPtr& other)
CopyDeleted(x, o, ub) ==
    /\ Running /\ FreshPtr(x) /\ o \in Ptrs /\ isHashTableDeletedValue(Cur, o)
    /\ Commit(Undefined(CtorCopy(Cur, x, o), ub), Undefined(CtorCopy(Rel, x, o), ub),
              "CheckedPtr(const&)", x, o, Dead, m_ptr[o])
    /\ roundTrip' = NoRoundTrip

\* CheckedPtr& operator=(std::nullptr_t)
SetNullDeleted(x, ub) ==
    /\ Running /\ x \in Ptrs /\ isHashTableDeletedValue(Cur, x)
    /\ Commit(Undefined(AssignNull(Cur, x), ub), Undefined(AssignNull(Rel, x), ub),
              "operator=(nullptr)", x, 0, m_ptr[x], Null)
    /\ roundTrip' = NoRoundTrip

\* CheckedPtr& operator=(T* ptr)
SetRawDeleted(x, v, ub) ==
    /\ Running /\ x \in Ptrs /\ isHashTableDeletedValue(Cur, x) /\ v \in RawPointers
    /\ Commit(Undefined(AssignRaw(Cur, x, v), ub), Undefined(AssignRaw(Rel, x, v), ub),
              "operator=(T*)", x, v, m_ptr[x], v)
    /\ roundTrip' = NoRoundTrip

NextDeleted ==
    \/ Next
    \/ \E x \in Ptrs, ub \in BOOLEAN : DeleteDeleted(x, ub)
    \/ \E x \in Ptrs, o \in Ptrs, ub \in BOOLEAN : CopyDeleted(x, o, ub)
    \/ \E x \in Ptrs, ub \in BOOLEAN : SetNullDeleted(x, ub)
    \/ \E x \in Ptrs, v \in {Null} \cup Pointees, ub \in BOOLEAN : SetRawDeleted(x, v, ub)

\* The default build, with callers that also destroy, copy, reset and assign
\* over a CheckedPtr holding the deleted value.
SpecDeleted == Init /\ [][NextDeleted]_vars

TypeOK ==
    /\ m_ptr \in [Slots -> {Dead, Null, hashTableDeletedValue} \cup Pointees]
    /\ m_ptr[Tmp] = Dead
    /\ ref_ptr \in [Refs -> {Dead, Null} \cup Pointees]
    /\ ptrCount \in [Pointees -> Nat]
    /\ status \in {"running", "assertion", "crashed"}
    /\ debugEnabled \in BOOLEAN
    /\ registry \in [Pointees -> SUBSET (0..(NumPtrs + NumRefs))]

\* ================================================================ claims
\* The number of live CheckedPtr and CheckedRef instances whose slot holds p.
Targeting(p) ==
    Cardinality({x \in Slots : m_ptr[x] = p}) + Cardinality({r \in Refs : ref_ptr[r] = p})

\* C1: after any sequence of constructions, copies, moves, assignments,
\* resets, releaseNonNull calls and destructions, every pointee's outstanding
\* count equals the number of live checked pointers and checked references
\* whose slot targets it.
C1_CountIsLiveTargets ==
    \A p \in Pointees : ptrCount[p] = Targeting(p)

\* Three pointers and a reference share one pointee.
C1_Witness ==
    \E p \in Pointees :
        /\ ptrCount[p] = 4
        /\ \E r \in Refs : ref_ptr[r] = p
        /\ Cardinality({x \in Ptrs : m_ptr[x] = p}) = 3

\* The scenario A = P, B = copy(A), C = move(B), reset C, reset A, run from
\* the current state on the instances 1, 2, 3: the count of P after each step.
ScenarioSteps(P) ==
    LET s1 == CtorRaw(Cur, 1, P)
        s2 == CtorCopy(s1, 2, 1)
        s3 == CtorMove(s2, 3, 2)
        s4 == AssignNull(s3, 3)
        s5 == AssignNull(s4, 1)
    IN  <<s1, s2, s3, s4, s5>>

ScenarioReady(P) ==
    /\ Running /\ alive[P] /\ ptrCount[P] = 0
    /\ \A x \in 1..3 : m_ptr[x] = Dead

\* C2: destroying a pointee whose count is non-zero ends in the fatal
\* liveness failure, destroying one whose count is zero does not; and in the
\* scenario A=P, B=copy(A), C=move(B), reset C, reset A the count runs
\* 1,2,2,1,0, after which destroying P succeeds, while destroying P before
\* the reset of A is fatal.
C2_DestroyFatalIffOutstanding ==
    /\ last.op = "~Pointee" =>
          /\ (status = "assertion") = (last.cnt0[last.a] # 0)
          /\ (status = "running") = (last.cnt0[last.a] = 0)
          /\ (status = "running") = ~alive[last.a]
    /\ \A P \in Pointees : ScenarioReady(P) =>
          LET s == ScenarioSteps(P)
          IN  /\ [i \in 1..5 |-> s[i].cnt[P]] = <<1, 2, 2, 1, 0>>
              /\ s[3].ptr[2] = Null
              /\ ~PointeeDtorFails(s[5], P)
              /\ PointeeDtorFails(s[4], P)

\* A pointee was destroyed while a checked pointer still targeted it.
C2_Witness ==
    /\ last.op = "~Pointee" /\ status = "assertion"
    /\ \E x \in Ptrs : m_ptr[x] = last.a

MoveCtorOps == {"CheckedPtr(&&)", "CheckedPtr(Other&&)"}

\* C3: move-constructing a checked pointer from another one (same or
\* converting pointee type) changes no pointee's count, leaves the source
\* null and leaves the new instance targeting what the source targeted.
C3_MoveCtorKeepsCount ==
    last.op \in MoveCtorOps =>
        /\ ptrCount = last.cnt0
        /\ m_ptr[last.b] = Null
        /\ m_ptr[last.a] = last.b0

\* A move construction from a source that targeted a pointee.
C3_Witness ==
    /\ last.op \in MoveCtorOps /\ last.b0 \in Pointees
    /\ m_ptr[last.a] = last.b0

MoveAssignOps == {"operator=(&&)", "operator=(Other&&)"}

CopyAssignOps == {"operator=(T*)", "operator=(const&)", "operator=(const Other&)"}

\* C4 as stated: move-assigning, for every prior state of the destination
\* (the source itself included), never changes the count of the source's
\* pointee and leaves the source pointer null.
C4_Original ==
    last.op \in MoveAssignOps =>
        /\ last.b0 \in Pointees => ptrCount[last.b0] = last.cnt0[last.b0]
        /\ m_ptr[last.b] = Null

\* C4 (amended): move-assigning into another instance leaves the source null
\* and the destination targeting what the source targeted; the count of the
\* source's pointee is unchanged, except that it drops by exactly one when
\* the destination already targeted that same pointee (its old increment is
\* released).  Move-assigning a pointer to itself changes no count and the
\* pointer keeps its target.
C4_MoveAssign ==
    last.op \in MoveAssignOps =>
        IF last.a = last.b
        THEN ptrCount = last.cnt0 /\ m_ptr[last.a] = last.a0
        ELSE /\ m_ptr[last.b] = Null
             /\ m_ptr[last.a] = last.b0
             /\ last.b0 \in Pointees =>
                   ptrCount[last.b0] =
                       last.cnt0[last.b0] - (IF last.a0 = last.b0 THEN 1 ELSE 0)

\* A move assignment between two instances that targeted the same pointee.
C4_Witness ==
    /\ last.op \in MoveAssignOps /\ last.a # last.b
    /\ last.a0 = last.b0 /\ last.b0 \in Pointees

\* C5: copy-assigning a checked pointer to itself leaves every count as it
\* was, and the pointer still targets the same pointee (or is still null).
C5_SelfCopyAssign ==
    (last.op = "operator=(const&)" /\ last.a = last.b) =>
        /\ ptrCount = last.cnt0
        /\ m_ptr[last.a] = last.a0

\* A self copy-assignment of a pointer that targets a pointee.
C5_Witness ==
    /\ last.op = "operator=(const&)" /\ last.a = last.b
    /\ last.a0 \in Pointees /\ m_ptr[last.a] = last.a0

\* C6: releaseNonNull on a non-null pointer followed by the construction of
\* a new checked pointer that consumes the returned reference leaves the
\* pointee's count as it was before the round trip, the original pointer
\* null and the new pointer targeting the same pointee.
C6_ReleaseRoundTrip ==
    roundTrip.phase = "done" =>
        /\ ptrCount[roundTrip.p] = roundTrip.c
        /\ m_ptr[roundTrip.src] = Null
        /\ m_ptr[roundTrip.dst] = roundTrip.p
        /\ ref_ptr[roundTrip.rf] = Null

\* A completed round trip.
C6_Witness ==
    /\ roundTrip.phase = "done" /\ last.op = "CheckedPtr(CheckedRef&&)"
    /\ roundTrip.p \in Pointees /\ roundTrip.c >= 1

EventsAt(ev, a) == {i \in 1..Len(last.log) : last.log[i].ev = ev /\ last.log[i].a = a}

\* C7: in an assignment that installs a non-null value from a raw pointer or
\* by copying another checked pointer, the increment of the new pointee comes
\* before every decrement; and when old and new value are the same pointee
\* and the destination was its only reference, the count of that pointee is
\* zero at no step of the assignment.
C7_IncrementBeforeDecrement ==
    /\ (last.op \in CopyAssignOps /\ last.b0 \in Pointees) =>
          /\ Cardinality(EventsAt("inc", last.b0)) = 1
          /\ \A i \in 1..Len(last.log) :
                last.log[i].ev = "dec" => \E j \in EventsAt("inc", last.b0) : j < i
    /\ (/\ last.op \in CopyAssignOps \cup MoveAssignOps
        /\ last.b0 \in Pointees
        /\ last.a0 = last.b0
        /\ last.cnt0[last.a0] = 1) =>
          \A i \in 1..Len(last.log) : last.log[i].c > 0

\* A raw pointer assignment of the pointee the destination alone targeted.
C7_Witness ==
    /\ last.op = "operator=(T*)" /\ last.b0 \in Pointees
    /\ last.a0 = last.b0 /\ last.cnt0[last.a0] = 1
    /\ EventsAt("dec", last.a0) # {}

NullSlotOps == {"operator*", "operator->", "releaseNonNull"}

\* C8 as stated: operator*, operator-> and releaseNonNull on a null slot end
\* in an unconditional fatal assertion failure.
C8_Original ==
    (last.op \in NullSlotOps /\ last.a0 = Null) => status = "assertion"

\* C8 (amended): in a build with assertions compiled in, operator* and
\* releaseNonNull on a null slot end in a fatal assertion failure; operator->
\* performs no check in any build, and in a build without assertions none of
\* the three ends in an assertion failure.
C8_DebugOnlyAssertion ==
    (last.op \in NullSlotOps /\ last.a0 = Null) =>
        (status = "assertion") = (assertEnabled /\ last.op # "operator->")

\* operator* on a null slot was stopped by the assertion.
C8_Witness ==
    /\ last.op = "operator*" /\ last.a0 = Null
    /\ assertEnabled /\ status = "assertion"

\* C9: customDeleteBucket on a bucket holding a valid checked pointer drops
\* the pointee's count by exactly one, touches no other count and leaves the
\* bucket holding the deleted sentinel.
C9_DeleteBucketReleasesOnce ==
    (last.op = "customDeleteBucket" /\ last.a0 \in Pointees) =>
        /\ ptrCount = [last.cnt0 EXCEPT ![last.a0] = @ - 1]
        /\ Cardinality(EventsAt("dec", last.a0)) = 1
        /\ m_ptr[last.a] = hashTableDeletedValue
        /\ m_ptr[Tmp] = Dead

\* A bucket that targeted a pointee was deleted.
C9_Witness ==
    /\ last.op = "customDeleteBucket" /\ last.a0 \in Pointees
    /\ m_ptr[last.a] = hashTableDeletedValue

\* C10 as stated: in customDeleteBucket the pointee's count is decremented
\* before the slot is overwritten with the deleted sentinel.
C10_Original ==
    (last.op = "customDeleteBucket" /\ last.a0 \in Pointees) =>
        \E i \in EventsAt("dec", last.a0), j \in EventsAt("deleted", last.a) : i < j

\* C10 (amended): customDeleteBucket moves the bucket's pointer into a local,
\* overwrites the slot with the deleted sentinel and only then, when the
\* local is destroyed on return, decrements the pointee's count; the
\* decrement happens exactly once, after the sentinel is written.
C10_SentinelBeforeDecrement ==
    (last.op = "customDeleteBucket" /\ last.a0 \in Pointees) =>
        /\ Cardinality(EventsAt("deleted", last.a)) = 1
        /\ Cardinality(EventsAt("dec", last.a0)) = 1
        /\ \A i \in EventsAt("dec", last.a0), j \in EventsAt("deleted", last.a) : j < i

\* The log of a bucket deletion: the sentinel, then the decrement.
C10_Witness ==
    /\ last.op = "customDeleteBucket" /\ last.a0 \in Pointees
    /\ Len(last.log) = 2
    /\ last.log[1].ev = "deleted" /\ last.log[2].ev = "dec"

ReleasingOps ==
    {"~CheckedPtr", "operator=(nullptr)"} \cup CopyAssignOps \cup MoveAssignOps

\* C13: no increment is released twice: no pointee's count drops below zero,
\* at the end of a call or at a step inside it, and destroying, resetting or
\* assigning over a pointer that is null (never set, moved from, or released)
\* performs no decrement.
C13_NoDoubleDecrement ==
    /\ \A p \in Pointees : ptrCount[p] >= 0
    /\ \A i \in 1..Len(last.log) : last.log[i].c >= 0
    /\ (last.op \in ReleasingOps /\ last.a0 = Null) =>
           \A i \in 1..Len(last.log) : last.log[i].ev # "dec"

\* A null pointer was destroyed while another pointer keeps a pointee charged.
C13_Witness ==
    /\ last.op = "~CheckedPtr" /\ last.a0 = Null
    /\ \E p \in Pointees : ptrCount[p] >= 1 /\ ptrCount = last.cnt0

\* C14: constructing a checked pointer by consuming a CheckedRef (&&)
\* performs neither an increment nor a decrement; constructing it from a
\* CheckedRef that stays alive (lvalue or const&) increments the pointee's
\* count by exactly one and leaves the reference targeting the pointee.
C14_RefConstruction ==
    /\ last.op = "CheckedPtr(CheckedRef&&)" =>
           /\ last.log = <<>>
           /\ ptrCount = last.cnt0
    /\ (last.op = "CheckedPtr(CheckedRef&)" /\ last.b0 \in Pointees) =>
           /\ ptrCount = [last.cnt0 EXCEPT ![last.b0] = @ + 1]
           /\ Len(last.log) = 1 /\ Cardinality(EventsAt("inc", last.b0)) = 1
           /\ ref_ptr[last.b] = last.b0
           /\ m_ptr[last.a] = last.b0

\* A checked pointer was constructed from a CheckedRef that stays alive.
C14_Witness ==
    /\ last.op = "CheckedPtr(CheckedRef&)" /\ last.b0 \in Pointees
    /\ ref_ptr[last.b] = last.b0
    /\ ptrCount[last.b0] = 2

\* C15: copy-assigning a = b (b another checked pointer, or a raw pointer)
\* where a targeted Q and b targets the pointee P leaves a targeting P and b
\* unchanged, with the count of P one higher and the count of Q one lower
\* when they differ, no count changed when they are the same, and the count
\* of no third pointee touched.
C15_CopyAssign ==
    (last.op \in CopyAssignOps /\ last.b0 \in Pointees) =>
        /\ m_ptr[last.a] = last.b0
        /\ last.op # "operator=(T*)" => m_ptr[last.b] = last.b0
        /\ \A p \in Pointees :
               ptrCount[p] = last.cnt0[p] + (IF p = last.b0 THEN 1 ELSE 0)
                                          - (IF p = last.a0 THEN 1 ELSE 0)
        /\ \A i \in 1..Len(last.log) : last.log[i].a \in {last.a0, last.b0}

\* An assignment from Q to P while a third pointee is charged.
C15_Witness ==
    /\ last.op \in CopyAssignOps
    /\ last.a0 \in Pointees /\ last.b0 \in Pointees /\ last.a0 # last.b0
    /\ \E p \in Pointees \ {last.a0, last.b0} : ptrCount[p] >= 1

\* C16: resetting a checked pointer by assigning null decrements its former
\* pointee exactly once when it was non-null and leaves the slot null; a
\* second reset, or the reset of a null pointer, changes no count and does
\* not fail.
C16_ResetIdempotent ==
    last.op = "operator=(nullptr)" =>
        /\ m_ptr[last.a] = Null
        /\ status = "running"
        /\ ptrCount = IF last.a0 \in Pointees
                      THEN [last.cnt0 EXCEPT ![last.a0] = @ - 1]
                      ELSE last.cnt0
        /\ Cardinality({i \in 1..Len(last.log) : last.log[i].ev = "dec"})
               = IF last.a0 \in Pointees THEN 1 ELSE 0
        /\ LET again == AssignNull(Cur, last.a)
           IN  /\ again.ptr = m_ptr
               /\ again.cnt = ptrCount
               /\ again.st = status
               /\ again.log = <<>>

\* A pointer that was already null was reset while a pointee is charged.
C16_Witness ==
    /\ last.op = "operator=(nullptr)" /\ last.a0 = Null
    /\ \E p \in Pointees : ptrCount[p] >= 1

\* The two builds agree on every pointer, every count and the events of the
\* last call.
SameCounting ==
    /\ release.ptr = m_ptr
    /\ release.ref = ref_ptr
    /\ release.cnt = ptrCount
    /\ release.log = last.log

LiveTargeting(p) ==
    {PtrId(x) : x \in {y \in Slots : m_ptr[y] = p}}
        \cup {RefId(r) : r \in {q \in Refs : ref_ptr[q] = p}}

\* C18: in the build with the debug registry, after every completed call the
\* identities registered with a pointee are exactly the live checked pointers
\* and references targeting it: no entry of a destroyed temporary remains,
\* no live instance is missing.
C18_RegistryIsLiveSet ==
    (debugEnabled /\ status = "running") =>
        \A p \in Pointees : alive[p] => registry[p] = LiveTargeting(p)

\* The calls that act on a CheckedPtr holding the deleted value: the
\* destination of a destruction, a reset or an assignment, the source of a copy.
OnDeletedValue ==
    \/ last.op \in {"~CheckedPtr", "operator=(nullptr)", "operator=(T*)"}
           /\ last.a0 = hashTableDeletedValue
    \/ last.op = "CheckedPtr(const&)" /\ last.b0 = hashTableDeletedValue

\* C17: constructing a checked pointer from the deleted-value sentinel never
\* increments a count, and destroying, copying, resetting or assigning over a
\* checked pointer that holds the sentinel issues no increment and no
\* decrement on account of the sentinel: no count call is made through the
\* sentinel address, and the process keeps running.
C17_SentinelIsInert ==
    /\ last.op = "CheckedPtr(HashTableDeletedValue)" =>
           /\ last.log = <<>>
           /\ ptrCount = last.cnt0
    /\ OnDeletedValue =>
           /\ \A i \in 1..Len(last.log) : last.log[i].a # hashTableDeletedValue
           /\ status = "running"

====
